---- MODULE Spec2Model ----
(***************************************************************************)
(* Model of the WillyWeather surf scraper (scraper.py).                    *)
(*                                                                         *)
(* JSON / Python values are modelled as tagged records:                    *)
(*   None            [t |-> "null"]                                        *)
(*   int / float     [t |-> "num",  n |-> an integer]                      *)
(*   int >= 2^1024   [t |-> "big"]      (an int float() cannot hold)       *)
(*   str             [t |-> "str",  s |-> sequence of 1-character strings] *)
(*   list            [t |-> "list", l |-> sequence of values]              *)
(*   dict            [t |-> "dict", d |-> function from keys to values]    *)
(* A call that may raise returns [exc |-> name, val |-> value], with       *)
(* exc = "none" when it returns normally.                                  *)
(***************************************************************************)
EXTENDS Integers, Sequences, FiniteSets, TLC

VARIABLES
    pc,               \* position of the operation the specification runs
    entries,          \* find_closest_entry: argument entries
    target_hour,      \* find_closest_entry: argument target_hour
    closest,          \* find_closest_entry: outcome of the call
    data,             \* extract_forecast_records: the API payload
    forecast_records, \* extract_forecast_records: the records returned
    slot_log,         \* extract_forecast_records: per record, the day_index,
                      \* slot and swell_data, wind_data, tide_data it was built from
    surf_breaks,      \* the surf_breaks table: rows [id, region]
    forecast_data,    \* the forecast_data table: a set of rows
    region_name,      \* save_forecast_data: argument region_name
    response,         \* save_forecast_data: outcome of the break lookup
    break_index,      \* save_forecast_data: position of the outer loop
    record_index,     \* save_forecast_data: position of the inner loop
    total_saved,      \* save_forecast_data: upserts that returned
    total_errors,     \* save_forecast_data: upserts that raised
    upserts,          \* save_forecast_data: the rows of the upserts attempted
    prior_write,      \* the forecast_data table as the previous call of
                      \* save_forecast_data left it, when that call had the same
                      \* arguments as this one and none of its upserts raised
    env,              \* which configuration values the environment holds
    api_response,     \* get_forecast_data: the answer to the latest API request
    api_records,      \* get_forecast_data: what it returns for each answer the
                      \* API can give
    regions_to_scrape,\* run_scraper: the regions of this run, in loop order
    region_index,     \* run_scraper: position of the region loop
    successful_scrapes, \* run_scraper: regions whose records were handed on
    events,           \* API requests and sleeps of the current run, in order
    caller,           \* who called save_forecast_data: "test", "run" or "none"
    job_due,          \* schedule: the job registered at line 519 is due
    last_api_event    \* the latest of the process's API requests and sleeps
                      \* between requests: "request", "sleep" or "none"

findVars == <<entries, target_hour, closest>>
extractVars == <<data, forecast_records, slot_log>>
saveVars == <<surf_breaks, forecast_data, region_name, response, break_index,
              record_index, total_saved, total_errors, upserts, prior_write>>
runVars == <<env, api_response, regions_to_scrape, region_index, successful_scrapes,
             events, caller, api_records, job_due, last_api_event>>
vars == <<pc, findVars, extractVars, saveVars, runVars>>

-----------------------------------------------------------------------------
(* Python values *)

JNull == [t |-> "null"]
JBig == [t |-> "big"]
JNum(n) == [t |-> "num", n |-> n]
JStr(s) == [t |-> "str", s |-> s]
JList(l) == [t |-> "list", l |-> l]
JDict(d) == [t |-> "dict", d |-> d]
EmptyDict == JDict([k \in {} |-> JNull])
EmptyStr == JStr(<<>>)
EmptyList == JList(<<>>)

Ok(v) == [exc |-> "none", val |-> v]
Raise(e) == [exc |-> e, val |-> JNull]

\* bool(v): Python truthiness
Truthy(v) ==
    CASE v.t = "null" -> FALSE
      [] v.t = "num" -> v.n # 0
      [] v.t = "big" -> TRUE
      [] v.t = "str" -> Len(v.s) > 0
      [] v.t = "list" -> Len(v.l) > 0
      [] v.t = "dict" -> DOMAIN v.d # {}

\* v.get(key, default): only a dict has .get
PyGet(v, key, default) ==
    IF v.t # "dict" THEN Raise("AttributeError")
    ELSE IF key \in DOMAIN v.d THEN Ok(v.d[key]) ELSE Ok(default)

\* the keys of a dict as str values, in some order
RECURSIVE KeySeq(_)
KeySeq(ks) ==
    IF ks = {} THEN <<>>
    ELSE LET k == CHOOSE x \in ks : TRUE
         IN <<JStr(<<k>>)>> \o KeySeq(ks \ {k})

\* the elements `for x in v` visits, or the TypeError of a non-iterable
PyIter(v) ==
    CASE v.t = "list" -> Ok(v.l)
      [] v.t = "str" -> Ok([i \in 1..Len(v.s) |-> JStr(<<v.s[i]>>)])
      [] v.t = "dict" -> Ok(KeySeq(DOMAIN v.d))
      [] OTHER -> Raise("TypeError")

\* `c in v` for a one-character string c
PyContains(c, v) ==
    CASE v.t = "str" -> Ok(\E i \in 1..Len(v.s) : v.s[i] = c)
      [] v.t = "list" -> Ok(\E i \in 1..Len(v.l) : v.l[i] = JStr(<<c>>))
      [] v.t = "dict" -> Ok(c \in DOMAIN v.d)
      [] OTHER -> Raise("TypeError")

\* s.split(sep) on a sequence of characters, sep one character
RECURSIVE StrSplit(_, _)
StrSplit(s, sep) ==
    IF \A i \in 1..Len(s) : s[i] # sep THEN <<s>>
    ELSE LET i == CHOOSE j \in 1..Len(s) :
                      s[j] = sep /\ \A k \in 1..(j - 1) : s[k] # sep
         IN <<SubSeq(s, 1, i - 1)>> \o StrSplit(SubSeq(s, i + 1, Len(s)), sep)

Digits == <<"0", "1", "2", "3", "4", "5", "6", "7", "8", "9">>
IsDigit(c) == \E i \in 1..10 : Digits[i] = c
DigitVal(c) == (CHOOSE i \in 1..10 : Digits[i] = c) - 1

RECURSIVE DecimalValue(_)
DecimalValue(s) ==
    IF s = <<>> THEN 0
    ELSE 10 * DecimalValue(SubSeq(s, 1, Len(s) - 1)) + DigitVal(s[Len(s)])

\* int(s) for a str: an optional sign and at least one decimal digit, else
\* ValueError (surrounding blanks and "_" separators are not in the alphabet
\* of the sampled strings)
PyInt(s) ==
    LET signed == Len(s) > 0 /\ s[1] \in {"-", "+"}
        body == IF signed THEN SubSeq(s, 2, Len(s)) ELSE s
    IN IF Len(body) = 0 \/ \E i \in 1..Len(body) : ~IsDigit(body[i])
       THEN Raise("ValueError")
       ELSE Ok(IF signed /\ s[1] = "-" THEN 0 - DecimalValue(body)
               ELSE DecimalValue(body))

Abs(x) == IF x < 0 THEN 0 - x ELSE x

-----------------------------------------------------------------------------
(* WillyWeatherScraper.find_closest_entry *)

\* float('inf'), the initial min_diff: every diff (an abs, so >= 0) is below it
Inf ==
    -1

\* line 275 with <= for <: the last of several tied entries wins
IsCloserOrEqual(diff, min_diff) == min_diff = Inf \/ diff <= min_diff

\* line 275 with > for <: nothing is below the initial infinity
IsFarther(diff, min_diff) == min_diff # Inf /\ diff > min_diff

\* line 275: diff < min_diff
IsCloser(diff, min_diff) == min_diff = Inf \/ diff < min_diff

\* lines 261-280, one entry: the hour its dateTime gives ("hour"), the entry
\* being passed over ("skip"), or the exception that leaves the function
EntryHour(entry) ==
    IF entry.t # "dict" THEN [k |-> "skip"]
    ELSE LET entry_time == PyGet(entry, "dateTime", EmptyStr).val
         IN IF ~Truthy(entry_time) THEN [k |-> "skip"]
            ELSE LET hasT == PyContains("T", entry_time)
                 IN IF hasT.exc # "none" THEN [k |-> "raise", exc |-> hasT.exc]
                    ELSE IF ~hasT.val THEN [k |-> "skip"]
                    ELSE IF entry_time.t # "str"
                         THEN [k |-> "raise", exc |-> "AttributeError"]
                    ELSE LET time_part == StrSplit(entry_time.s, "T")[2]
                             hour == PyInt(StrSplit(time_part, ":")[1])
                         IN IF hour.exc # "none" THEN [k |-> "skip"]
                            ELSE [k |-> "hour", hour |-> hour.val]

\* lines 260-280: the loop from position i with the loop variables so far
RECURSIVE FindLoop(_, _, _, _, _)
FindLoop(items, i, target, closest_entry, min_diff) ==
    IF i > Len(items) THEN Ok(closest_entry)
    ELSE LET h == EntryHour(items[i])
         IN CASE h.k = "raise" -> Raise(h.exc)
              [] h.k = "skip" ->
                    FindLoop(items, i + 1, target, closest_entry, min_diff)
              [] h.k = "hour" ->
                    LET diff == Abs(h.hour - target)
                    IN IF IsCloser(diff, min_diff)
                       THEN FindLoop(items, i + 1, target, items[i], diff)
                       ELSE FindLoop(items, i + 1, target, closest_entry, min_diff)

\* lines 254-257 without the guard, the search starting from entries[0]
find_closest_entry_from_first(es, target) ==
    LET items == PyIter(es)
    IN IF items.exc # "none" THEN Raise(items.exc)
       ELSE IF Len(items.val) = 0 THEN Raise("IndexError")
       ELSE LET r == FindLoop(items.val, 1, target, items.val[1], Inf)
            IN IF r.exc # "none" THEN r
               ELSE IF Truthy(r.val) THEN r ELSE Ok(EmptyDict)

\* lines 252-282
find_closest_entry(es, target) ==
    IF ~Truthy(es) THEN Ok(EmptyDict)
    ELSE LET items == PyIter(es)
         IN IF items.exc # "none" THEN Raise(items.exc)
            ELSE LET r == FindLoop(items.val, 1, target, JNull, Inf)
                 IN IF r.exc # "none" THEN r
                    ELSE IF Truthy(r.val) THEN r ELSE Ok(EmptyDict)

-----------------------------------------------------------------------------
(* WillyWeatherScraper.safe_get_float *)

\* float(v): a number converts, an int beyond the float range overflows, a
\* str is parsed (decimal integer literals; the sampled strings hold no
\* other numeric form), anything else is a TypeError
PyFloat(v) ==
    CASE v.t = "num" -> Ok(JNum(v.n))
      [] v.t = "big" -> Raise("OverflowError")
      [] v.t = "str" ->
            LET r == PyInt(v.s)
            IN IF r.exc # "none" THEN Raise("ValueError") ELSE Ok(JNum(r.val))
      [] OTHER -> Raise("TypeError")

\* line 290 as `if not value`: a zero reading counts as missing
IsFalsy(value) == ~Truthy(value)

\* line 290: value is None
IsNone(value) == value.t = "null"

\* lines 284-296
safe_get_float(dct, key) ==
    IF ~Truthy(dct) \/ dct.t # "dict" THEN Ok(JNull)
    ELSE LET value == PyGet(dct, key, JNull).val
         IN IF IsNone(value) THEN Ok(JNull)
            ELSE LET f == PyFloat(value)
                 IN IF f.exc \in {"ValueError", "TypeError"} THEN Ok(JNull) ELSE f

-----------------------------------------------------------------------------
(* WillyWeatherScraper.extract_forecast_records *)

\* lines 80-88
TIME_SLOTS ==
    << [period |-> "6am", hour |-> 6], [period |-> "8am", hour |-> 8],
       [period |-> "10am", hour |-> 10], [period |-> "12pm", hour |-> 12],
       [period |-> "2pm", hour |-> 14], [period |-> "4pm", hour |-> 16],
       [period |-> "6pm", hour |-> 18] >>

\* line 189: at most this many days are processed
MaxDaysProcessed == 3

Min(a, b) == IF a < b THEN a ELSE b
Max(a, b) == IF a > b THEN a ELSE b

\* len(v)
PyLen(v) ==
    CASE v.t = "list" -> Ok(Len(v.l))
      [] v.t = "str" -> Ok(Len(v.s))
      [] v.t = "dict" -> Ok(Cardinality(DOMAIN v.d))
      [] OTHER -> Raise("TypeError")

\* v[i] for an int i >= 0 within len(v); a dict of str keys has no int key
PyIndex(v, i) ==
    CASE v.t = "list" -> Ok(v.l[i + 1])
      [] v.t = "str" -> Ok(JStr(<<v.s[i + 1]>>))
      [] v.t = "dict" -> Raise("KeyError")
      [] OTHER -> Raise("TypeError")

\* lines 176-178: forecasts.get(name, {}).get('days', [])
SectionDays(forecasts, name) ==
    LET sec == PyGet(forecasts, name, EmptyDict)
    IN IF sec.exc # "none" THEN sec ELSE PyGet(sec.val, "days", EmptyList)

\* lines 192-194: forecast[day_index] if day_index < len(forecast) else {}
DayAt(forecast, day_index) ==
    IF day_index < PyLen(forecast).val THEN PyIndex(forecast, day_index)
    ELSE Ok(EmptyDict)

\* line 197: swell_day.get('dateTime', wind_day.get('dateTime', '')); the
\* default is evaluated first
DayDate(swell_day, wind_day) ==
    LET dflt == PyGet(wind_day, "dateTime", EmptyStr)
    IN IF dflt.exc # "none" THEN dflt ELSE PyGet(swell_day, "dateTime", dflt.val)

\* lines 223-232 with wind_direction read from swell_data
SlotRecordSwellDirection(forecast_date, period, swell_data, wind_data, tide_data) ==
    LET sh == safe_get_float(swell_data, "height")
        sd == safe_get_float(swell_data, "direction")
        sp == safe_get_float(swell_data, "period")
        ws == safe_get_float(wind_data, "speed")
        wd == safe_get_float(swell_data, "direction")
        th == safe_get_float(tide_data, "height")
        all == <<sh, sd, sp, ws, wd, th>>
    IN IF \E i \in 1..6 : all[i].exc # "none"
       THEN Raise("OverflowError")
       ELSE Ok([forecast_date |-> forecast_date,
                time_period |-> period,
                swell_height |-> sh.val,
                swell_direction |-> sd.val,
                swell_period |-> sp.val,
                wind_speed |-> ws.val,
                wind_direction |-> wd.val,
                tide_height |-> th.val])

\* lines 223-232: the record of one slot, or the exception of the first
\* safe_get_float that raises
SlotRecord(forecast_date, period, swell_data, wind_data, tide_data) ==
    LET sh == safe_get_float(swell_data, "height")
        sd == safe_get_float(swell_data, "direction")
        sp == safe_get_float(swell_data, "period")
        ws == safe_get_float(wind_data, "speed")
        wd == safe_get_float(wind_data, "direction")
        th == safe_get_float(tide_data, "height")
        all == <<sh, sd, sp, ws, wd, th>>
    IN IF \E i \in 1..6 : all[i].exc # "none"
       THEN Raise(all[CHOOSE i \in 1..6 :
                        all[i].exc # "none" /\ \A j \in 1..(i - 1) : all[j].exc = "none"].exc)
       ELSE Ok([forecast_date |-> forecast_date,
                time_period |-> period,
                swell_height |-> sh.val,
                swell_direction |-> sd.val,
                swell_period |-> sp.val,
                wind_speed |-> ws.val,
                wind_direction |-> wd.val,
                tide_height |-> th.val])

\* lines 213-234: the slot loop from slot k on; steps are the appends the day
\* has made so far (the record with the locals it was built from), which an
\* exception leaves in forecast_records
RECURSIVE SlotLoop(_, _, _, _, _, _, _)
SlotLoop(day_index, forecast_date, swell_entries, wind_entries, tide_entries, k, steps) ==
    IF k > Len(TIME_SLOTS) THEN [exc |-> "none", steps |-> steps]
    ELSE LET target == TIME_SLOTS[k].hour
             swell_data == find_closest_entry(swell_entries, target)
             wind_data == find_closest_entry(wind_entries, target)
             tide_data == find_closest_entry(tide_entries, target)
         IN IF swell_data.exc # "none" THEN [exc |-> swell_data.exc, steps |-> steps]
            ELSE IF wind_data.exc # "none" THEN [exc |-> wind_data.exc, steps |-> steps]
            ELSE IF tide_data.exc # "none" THEN [exc |-> tide_data.exc, steps |-> steps]
            ELSE LET record == SlotRecord(forecast_date, TIME_SLOTS[k].period,
                                          swell_data.val, wind_data.val, tide_data.val)
                 IN IF record.exc # "none" THEN [exc |-> record.exc, steps |-> steps]
                    ELSE SlotLoop(day_index, forecast_date, swell_entries, wind_entries,
                                  tide_entries, k + 1,
                                  Append(steps, [record |-> record.val,
                                                 day_index |-> day_index,
                                                 slot |-> k,
                                                 swell |-> swell_data.val,
                                                 wind |-> wind_data.val,
                                                 tides |-> tide_data.val]))

\* lines 190-243, one day: the appends it makes and how it ended ("none":
\* all slots done, "nodate": skipped at line 200, else the exception caught
\* at line 241)
ProcessDay(swell_forecast, wind_forecast, tides_forecast, day_index) ==
    LET swell_day == DayAt(swell_forecast, day_index)
        wind_day == DayAt(wind_forecast, day_index)
        tides_day == DayAt(tides_forecast, day_index)
        Fail(e) == [exc |-> e, steps |-> <<>>]
    IN IF swell_day.exc # "none" THEN Fail(swell_day.exc)
       ELSE IF wind_day.exc # "none" THEN Fail(wind_day.exc)
       ELSE IF tides_day.exc # "none" THEN Fail(tides_day.exc)
       ELSE LET forecast_date == DayDate(swell_day.val, wind_day.val)
            IN IF forecast_date.exc # "none" THEN Fail(forecast_date.exc)
               ELSE IF ~Truthy(forecast_date.val) THEN Fail("nodate")
               ELSE IF forecast_date.val.t # "str" THEN Fail("AttributeError")
               ELSE LET date == StrSplit(forecast_date.val.s, "T")[1]
                        swell_entries == PyGet(swell_day.val, "entries", EmptyList)
                        wind_entries == PyGet(wind_day.val, "entries", EmptyList)
                        tide_entries == PyGet(tides_day.val, "entries", EmptyList)
                    IN IF tide_entries.exc # "none" THEN Fail(tide_entries.exc)
                       ELSE IF \E e \in {swell_entries, wind_entries, tide_entries} :
                                   PyLen(e.val).exc # "none"
                            THEN Fail("TypeError")
                       ELSE SlotLoop(day_index, date, swell_entries.val, wind_entries.val,
                                     tide_entries.val, 1, <<>>)

\* lines 189-243: the day loop from day_index on
RECURSIVE DayLoop(_, _, _, _, _, _)
DayLoop(swell_forecast, wind_forecast, tides_forecast, day_index, n, steps) ==
    IF day_index >= n THEN steps
    ELSE DayLoop(swell_forecast, wind_forecast, tides_forecast, day_index + 1, n,
                 steps \o
                 ProcessDay(swell_forecast, wind_forecast, tides_forecast, day_index).steps)

\* line 189 without the cap of 3 days
DaysToProcessAll(swell_forecast, wind_forecast) ==
    Max(PyLen(swell_forecast).val, PyLen(wind_forecast).val)

\* line 189 counting the swell days only
DaysToProcessSwellOnly(swell_forecast, wind_forecast) ==
    Min(MaxDaysProcessed, PyLen(swell_forecast).val)

\* line 189: range(min(3, max(len(swell_forecast), len(wind_forecast))))
DaysToProcess(swell_forecast, wind_forecast) ==
    Min(MaxDaysProcessed, Max(PyLen(swell_forecast).val, PyLen(wind_forecast).val))

\* lines 167-250, as the appends made to the list that is returned; every
\* exception outside the day loop gives []
ExtractSteps(payload) ==
    LET forecasts == PyGet(payload, "forecasts", EmptyDict)
    IN IF forecasts.exc # "none" THEN <<>>
       ELSE IF ~Truthy(forecasts.val) THEN <<>>
       ELSE LET swell_forecast == SectionDays(forecasts.val, "swell")
                wind_forecast == SectionDays(forecasts.val, "wind")
                tides_forecast == SectionDays(forecasts.val, "tides")
            IN IF \E f \in {swell_forecast, wind_forecast, tides_forecast} : f.exc # "none"
               THEN <<>>
               ELSE IF ~Truthy(swell_forecast.val) /\ ~Truthy(wind_forecast.val) THEN <<>>
               ELSE IF \E f \in {swell_forecast, wind_forecast, tides_forecast} :
                           PyLen(f.val).exc # "none"
                    THEN <<>>
               ELSE DayLoop(swell_forecast.val, wind_forecast.val, tides_forecast.val, 0,
                            DaysToProcess(swell_forecast.val, wind_forecast.val), <<>>)

\* the records appended, and the locals of each append
RecordsOf(steps) == [i \in 1..Len(steps) |-> steps[i].record]
LocalsOf(steps) ==
    [i \in 1..Len(steps) |->
        [day_index |-> steps[i].day_index, slot |-> steps[i].slot,
         swell |-> steps[i].swell, wind |-> steps[i].wind, tides |-> steps[i].tides]]

\* lines 167-250
extract_forecast_records(payload) == RecordsOf(ExtractSteps(payload))

-----------------------------------------------------------------------------
(* Inputs of find_closest_entry *)

MaxEntries == 3

\* "<date>T<hh>:00"
Stamp(date, hh) == <<date, "T">> \o hh \o <<":", "0", "0">>

\* a swell entry with the given dateTime value and height
Entry(dt, h) == JDict([dateTime |-> dt, height |-> JNum(h)])

E5 == Entry(JStr(Stamp("a", <<"0", "5">>)), 10)
E5b == Entry(JStr(Stamp("a", <<"0", "5">>)), 11)
E7 == Entry(JStr(Stamp("a", <<"0", "7">>)), 12)
E9 == Entry(JStr(Stamp("a", <<"0", "9">>)), 15)
E13 == Entry(JStr(Stamp("a", <<"1", "3">>)), 20)
E17 == Entry(JStr(Stamp("a", <<"1", "7">>)), 12)
ENoKey == JDict([height |-> JNum(30)])
ENoT == Entry(JStr(<<"a", " ", "0", "6", ":", "0", "0">>), 31)
EBadHour == Entry(JStr(<<"a", "T", "x", ":", "0", "0">>), 32)
ENumStamp == Entry(JNum(6), 33)
ENotDict == JStr(<<"x">>)

ParseableEntries == {E5, E5b, E7, E9, E13, E17}
SkippedEntries == {ENoKey, ENoT, EBadHour, ENotDict}
FindEntrySamples == ParseableEntries \cup SkippedEntries \cup {ENumStamp}

SeqsUpTo(S, n) == UNION {[1..m -> S] : m \in 0..n}

\* the spec's end-to-end example: swell entries at hours 5, 9, 13, 17
ExampleEntries == <<E5, E9, E13, E17>>

FindInputs == {JList(l) : l \in SeqsUpTo(FindEntrySamples, MaxEntries) \cup {ExampleEntries}}

\* the seven slot hours and the ends of the day
TargetHours == {0, 6, 8, 10, 12, 14, 16, 18, 23}

-----------------------------------------------------------------------------
(* Specification of find_closest_entry applied to the sampled inputs *)

NotCalled == [exc |-> "pending", val |-> JNull]

\* the variables of the operations a specification does not run
FindIdle == entries = EmptyList /\ target_hour = 0 /\ closest = NotCalled
ExtractIdle == data = EmptyDict /\ forecast_records = <<>> /\ slot_log = <<>>
NoResponse == [exc |-> "pending", data |-> <<>>]
NoPrior == [known |-> FALSE, table |-> {}]
FullEnv == [api_key |-> TRUE, db_url |-> TRUE, db_key |-> TRUE, test_mode |-> FALSE]
NoApiResponse == [kind |-> "none"]
RunIdle ==
    /\ env = FullEnv
    /\ api_response = NoApiResponse
    /\ regions_to_scrape = <<>>
    /\ region_index = 1
    /\ successful_scrapes = 0
    /\ events = <<>>
    /\ caller = "none"
    /\ api_records = <<>>
    /\ job_due = FALSE
    /\ last_api_event = "none"
SaveIdle ==
    /\ surf_breaks = {}
    /\ forecast_data = {}
    /\ region_name = ""
    /\ response = NoResponse
    /\ break_index = 1
    /\ record_index = 1
    /\ total_saved = 0
    /\ total_errors = 0
    /\ upserts = <<>>
    /\ prior_write = NoPrior

FindInit ==
    /\ pc = "find_call"
    /\ entries \in FindInputs
    /\ target_hour \in TargetHours
    /\ closest = NotCalled
    /\ ExtractIdle
    /\ SaveIdle
    /\ RunIdle

FindClosest ==
    /\ pc = "find_call"
    /\ closest' = find_closest_entry(entries, target_hour)
    /\ pc' = "find_done"
    /\ UNCHANGED <<entries, target_hour, extractVars, saveVars, runVars>>

FindNext == FindClosest

SpecFind == FindInit /\ [][FindNext]_vars

-----------------------------------------------------------------------------
(* Inputs of extract_forecast_records: payloads of ns swell, nw wind and nt  *)
(* tide days that are well-formed except for at most one day or section      *)

MaxSwellDays == 4
MaxWindDays == 1
MaxTideDays == 1
MaxDayEntries == 1

Categories == {"swell", "wind", "tides"}
DateChars == <<"a", "b", "c", "d", "e", "f", "g">>
DayStamp(i) == JStr(<<DateChars[i], "T", "0", "0">>)

\* an entry stamped "<date>T<hh>:00" with the given field values
Reading(date, hh, h, d, p, sp) ==
    JDict([dateTime |-> JStr(Stamp(date, hh)),
           height |-> h, direction |-> d, period |-> p, speed |-> sp])

\* the values of well-formed entries tell category, day and entry apart
Base(cat, i) ==
    (CASE cat = "swell" -> 100 [] cat = "wind" -> 200 [] cat = "tides" -> 300) + 10 * i

DefaultEntries(cat, i) ==
    << Reading(DateChars[i], <<"0", "6">>, JNum(Base(cat, i) + 1), JNum(Base(cat, i) + 2),
               JNum(Base(cat, i) + 3), JNum(Base(cat, i) + 4)),
       Reading(DateChars[i], <<"1", "6">>, JNum(Base(cat, i) + 5), JNum(Base(cat, i) + 6),
               JNum(Base(cat, i) + 7), JNum(Base(cat, i) + 8)) >>

DefaultDay(cat, i) ==
    JDict([dateTime |-> DayStamp(i), entries |-> JList(DefaultEntries(cat, i))])

XA == Reading("a", <<"0", "6">>, JNum(10), JNum(20), JNum(30), JNum(40))
XZero == Reading("a", <<"1", "8">>, JNum(0), JNum(21), JNull, JStr(<<"7">>))
XText == JDict([dateTime |-> JStr(Stamp("a", <<"1", "2">>)),
                height |-> JStr(<<"x">>), speed |-> JNum(5)])
XBig == Reading("a", <<"1", "8">>, JBig, JNum(1), JNum(2), JNum(3))
XNumStamp == JDict([dateTime |-> JNum(6), height |-> JNum(33), speed |-> JNum(34)])
XNoStamp == JDict([height |-> JNum(50), direction |-> JNum(51),
                   period |-> JNum(52), speed |-> JNum(53)])

ExtractEntrySamples == {XA, XZero, XText, XBig, XNumStamp, XNoStamp}

\* longer entry lists: the spec's example, and lists whose later slots match
\* another entry than the earlier ones
ExampleDayEntries ==
    {ExampleEntries, <<XA, XBig>>, <<XA, XZero>>, <<XText, XA>>, <<XNoStamp, XA>>}

\* days that differ from the default day i in their date
StampShapes(cat, i) ==
    LET es == JList(DefaultEntries(cat, i))
    IN { JDict([entries |-> es]),
         JDict([dateTime |-> EmptyStr, entries |-> es]),
         JDict([dateTime |-> DayStamp(IF i = 1 THEN 2 ELSE 1), entries |-> es]),
         JDict([dateTime |-> JStr(<<DateChars[i], " ", "0", "0">>), entries |-> es]),
         JDict([dateTime |-> JNum(7), entries |-> es]),
         JNull }

\* days that differ from the default day i in their entries
EntryShapes(i) ==
    { JDict([dateTime |-> DayStamp(i), entries |-> JList(l)]) :
          l \in SeqsUpTo(ExtractEntrySamples, MaxDayEntries) \cup ExampleDayEntries }
    \cup { JDict([dateTime |-> DayStamp(i), entries |-> JNull]),
           JDict([dateTime |-> DayStamp(i)]) }

NoSpecial == [kind |-> "none"]

\* the one irregular day or section of a payload
Specials(ns, nw, nt) ==
    LET count(cat) == CASE cat = "swell" -> ns [] cat = "wind" -> nw [] cat = "tides" -> nt
    IN {NoSpecial}
       \cup { [kind |-> "section", cat |-> cat, shape |-> sh] :
                  cat \in Categories, sh \in {"null", "missing", "nodays"} }
       \cup UNION { UNION { { [kind |-> "day", cat |-> cat, idx |-> i, day |-> d] :
                                 d \in StampShapes(cat, i) \cup EntryShapes(i) } :
                             i \in 1..count(cat) } :
                     cat \in Categories }

SectionOf(cat, n, sp) ==
    LET days == JList([i \in 1..n |->
                        IF sp.kind = "day" /\ sp.cat = cat /\ sp.idx = i
                        THEN sp.day ELSE DefaultDay(cat, i)])
    IN IF sp.kind = "section" /\ sp.cat = cat
       THEN CASE sp.shape = "null" -> JNull
              [] sp.shape = "nodays" -> JDict([units |-> JNull])
              [] sp.shape = "missing" -> JNull
       ELSE JDict([days |-> days])

Payload(ns, nw, nt, sp) ==
    LET missing == IF sp.kind = "section" /\ sp.shape = "missing" THEN {sp.cat} ELSE {}
        count(cat) == CASE cat = "swell" -> ns [] cat = "wind" -> nw [] cat = "tides" -> nt
    IN JDict([forecasts |->
                JDict([cat \in Categories \ missing |-> SectionOf(cat, count(cat), sp)])])

-----------------------------------------------------------------------------
(* Specification of extract_forecast_records applied to the sampled payloads *)

ExtractInit ==
    /\ pc = "extract_call"
    /\ \E ns \in 0..MaxSwellDays, nw \in 0..MaxWindDays, nt \in 0..MaxTideDays :
          \E sp \in Specials(ns, nw, nt) : data = Payload(ns, nw, nt, sp)
    /\ forecast_records = <<>>
    /\ slot_log = <<>>
    /\ FindIdle
    /\ SaveIdle
    /\ RunIdle

ExtractRecords ==
    /\ pc = "extract_call"
    /\ \E steps \in {ExtractSteps(data)} :
          /\ forecast_records' = RecordsOf(steps)
          /\ slot_log' = LocalsOf(steps)
    /\ pc' = "extract_done"
    /\ UNCHANGED <<data, findVars, saveVars, runVars>>

ExtractNext == ExtractRecords

SpecExtract == ExtractInit /\ [][ExtractNext]_vars

-----------------------------------------------------------------------------
(* save_forecast_data *)

\* lines 341-351: db_record
DbRecord(break_id, forecast_record) ==
    [break_id |-> break_id,
     forecast_date |-> forecast_record.forecast_date,
     forecast_time |-> forecast_record.time_period,
     swell_height |-> forecast_record.swell_height,
     swell_direction |-> forecast_record.swell_direction,
     swell_period |-> forecast_record.swell_period,
     wind_speed |-> forecast_record.wind_speed,
     wind_direction |-> forecast_record.wind_direction,
     tide_height |-> forecast_record.tide_height]

\* line 357: on_conflict='break_id, forecast_date, forecast_time'
ConflictKey(row) == <<row.break_id, row.forecast_date, row.forecast_time>>

\* lines 355-358 as a plain insert: a row of the same key stays
UpsertAsInsert(table, row) == table \cup {row}

\* lines 355-358 ignoring duplicates: a row of the same key wins
UpsertIgnoreDuplicates(table, row) ==
    IF \E r \in table : ConflictKey(r) = ConflictKey(row) THEN table ELSE table \cup {row}

\* lines 355-358 as a refresh of the break: its other rows are deleted
UpsertAfterDelete(table, row) == {r \in table : r.break_id # row.break_id} \cup {row}

\* lines 355-358: upsert(db_record, on_conflict=...) when it is executed; the
\* row of the same key, if any, is replaced
Upsert(table, row) == {r \in table : ConflictKey(r) # ConflictKey(row)} \cup {row}

\* line 324 without .eq('region', region_name)
SelectAllBreaks(table, region) == {[id |-> b.id] : b \in table}

\* line 324: table('surf_breaks').select('id').eq('region', region_name)
SelectBreaksOfRegion(table, region) ==
    {[id |-> b.id] : b \in {x \in table : x.region = region}}

\* the orders in which the database may return a set of rows
Orders(S) ==
    {s \in [1..Cardinality(S) -> S] : \A i, j \in 1..Cardinality(S) : s[i] = s[j] => i = j}

-----------------------------------------------------------------------------
(* Inputs of save_forecast_data: records as extract_forecast_records builds   *)
(* them, and a surf_breaks table of two regions                              *)

MaxRecords == 2

RecA == SlotRecord(<<"a">>, "6am", XA, XA, XA).val
RecB == SlotRecord(<<"a">>, "8am", XA, EmptyDict, XA).val
\* the same date and slot as RecA with other values, three of them null
RecA2 == SlotRecord(<<"a">>, "6am", XZero, EmptyDict, EmptyDict).val

SaveRecordSamples == {RecA, RecB, RecA2}
\* lists of distinct records; RecA and RecA2 in one list share date and slot
SaveInputs ==
    {l \in SeqsUpTo(SaveRecordSamples, MaxRecords) :
        \A i, j \in 1..Len(l) : l[i] = l[j] => i = j}

\* Perth has no break
Regions == {"Sydney", "Gold Coast", "Perth"}
SurfBreaks ==
    { [id |-> 1, region |-> "Sydney"], [id |-> 2, region |-> "Sydney"],
      [id |-> 3, region |-> "Gold Coast"] }

-----------------------------------------------------------------------------
(* Specification of save_forecast_data, called any number of times on one    *)
(* database                                                                  *)

SaveInit ==
    /\ pc = "save_call"
    /\ forecast_records \in SaveInputs
    /\ region_name \in Regions
    /\ surf_breaks = SurfBreaks
    /\ forecast_data = {}
    /\ response = NoResponse
    /\ break_index = 1
    /\ record_index = 1
    /\ total_saved = 0
    /\ total_errors = 0
    /\ upserts = <<>>
    /\ prior_write = NoPrior
    /\ data = EmptyDict
    /\ slot_log = <<>>
    /\ FindIdle
    /\ RunIdle

\* lines 324-337: the lookup returns; without breaks the call returns at
\* line 328, without records both loops end without an upsert
SaveLookup ==
    /\ pc = "save_call"
    /\ \E rows \in Orders(SelectBreaksOfRegion(surf_breaks, region_name)) :
          /\ response' = [exc |-> "none", data |-> rows]
          /\ pc' = IF Len(rows) = 0 \/ Len(forecast_records) = 0
                   THEN "save_done" ELSE "save_loop"
    /\ UNCHANGED <<surf_breaks, forecast_data, region_name, break_index, record_index,
                   total_saved, total_errors, upserts, prior_write, findVars,
                   extractVars, runVars>>

\* lines 324, 375: the lookup raises and the call ends in the outer except
SaveLookupFails ==
    /\ pc = "save_call"
    /\ response' = [exc |-> "Exception", data |-> <<>>]
    /\ pc' = "save_done"
    /\ UNCHANGED <<surf_breaks, forecast_data, region_name, break_index, record_index,
                   total_saved, total_errors, upserts, prior_write, findVars,
                   extractVars, runVars>>

\* lines 339-351 with the record picked by the position of the break
CurrentRowByBreakIndex ==
    DbRecord(response.data[break_index].id,
             forecast_records[Min(break_index, Len(forecast_records))])

\* lines 339-351: the row of the current (break, record) pair
CurrentRow == DbRecord(response.data[break_index].id, forecast_records[record_index])

\* lines 338, 341: the next pair of the nested loops, or the end of both
Advance ==
    /\ record_index' = IF record_index < Len(forecast_records) THEN record_index + 1 ELSE 1
    /\ break_index' = IF record_index < Len(forecast_records)
                      THEN break_index ELSE break_index + 1
    /\ pc' = IF record_index < Len(forecast_records) \/ break_index < Len(response.data)
             THEN "save_loop" ELSE "save_done"

\* lines 354-359: the upsert of the current pair returns
SaveUpsert ==
    /\ pc = "save_loop"
    /\ forecast_data' = Upsert(forecast_data, CurrentRow)
    /\ total_saved' = total_saved + 1
    /\ upserts' = Append(upserts, CurrentRow)
    /\ Advance
    /\ UNCHANGED <<surf_breaks, region_name, response, total_errors, prior_write,
                   findVars, extractVars, runVars>>

\* lines 361-364 ending the batch at the first upsert that raises
AbortBatch ==
    /\ record_index' = record_index
    /\ break_index' = break_index
    /\ pc' = "save_done"

\* lines 361-364: except ... continue
ContinueAfterError == Advance

\* lines 354-364: the upsert of the current pair raises, with the row written
\* (the answer was lost) or not
SaveUpsertFails ==
    /\ pc = "save_loop"
    /\ forecast_data' \in {forecast_data, Upsert(forecast_data, CurrentRow)}
    /\ total_errors' = total_errors + 1
    /\ upserts' = Append(upserts, CurrentRow)
    /\ ContinueAfterError
    /\ UNCHANGED <<surf_breaks, region_name, response, total_saved, prior_write,
                   findVars, extractVars, runVars>>

\* line 318: the next call, on the database the earlier calls left
SaveCall ==
    /\ pc = "save_done"
    /\ forecast_records' \in SaveInputs
    /\ region_name' \in Regions
    /\ response' = NoResponse
    /\ break_index' = 1
    /\ record_index' = 1
    /\ total_saved' = 0
    /\ total_errors' = 0
    /\ upserts' = <<>>
    /\ prior_write' =
          IF /\ forecast_records' = forecast_records
             /\ region_name' = region_name
             /\ response.exc = "none"
             /\ total_errors = 0
          THEN [known |-> TRUE, table |-> forecast_data]
          ELSE NoPrior
    /\ pc' = "save_call"
    /\ UNCHANGED <<surf_breaks, forecast_data, data, slot_log, findVars, runVars>>

SaveNext ==
    \/ SaveLookup
    \/ SaveLookupFails
    \/ SaveUpsert
    \/ SaveUpsertFails
    \/ SaveCall

SpecSave == SaveInit /\ [][SaveNext]_vars

-----------------------------------------------------------------------------
(* get_forecast_data, get_all_breaks_to_scrape, run_scraper and __main__ *)

\* lines 29-77, four of its entries: region name -> location_id
AUSTRALIAN_SURF_LOCATIONS ==
    [r \in {"Sydney", "Wollongong", "Gold Coast", "Perth"} |->
        CASE r = "Sydney" -> 4950 [] r = "Wollongong" -> 17663
          [] r = "Gold Coast" -> 4958 [] r = "Perth" -> 5026]

\* lines 116-123 accepting every status
StatusAny(status_code) == TRUE

\* lines 116-123: only status 200 goes on to the body
StatusOk(status_code) == status_code = 200

\* lines 96-165: what get_forecast_data returns for an answer of the API; an
\* answer is an exception of requests.get, or a status with a body that is
\* JSON or not
get_forecast_data(resp) ==
    IF resp.kind # "response" THEN <<>>
    ELSE IF ~StatusOk(resp.status_code) THEN <<>>
    ELSE IF ~resp.is_json THEN <<>>
    ELSE IF ~Truthy(resp.json) \/ resp.json.t # "dict" THEN <<>>
    ELSE IF "forecasts" \notin DOMAIN resp.json.d THEN <<>>
    ELSE IF resp.json.d.forecasts.t # "dict" THEN <<>>
    ELSE extract_forecast_records(resp.json)

\* lines 298-316 returning every configured region
AllConfiguredRegions(table) == DOMAIN AUSTRALIAN_SURF_LOCATIONS

\* lines 302-313: the regions of the breaks that are non-empty and configured
get_all_breaks_to_scrape(table) ==
    {b.region : b \in {x \in table : x.region # ""
                                     /\ x.region \in DOMAIN AUSTRALIAN_SURF_LOCATIONS}}

\* lines 459-461 placed inside `if forecast_records:`
LogSleepIfSaved(log, saved) == IF saved THEN Append(log, <<"sleep", "5", "">>) ELSE log

\* lines 459-461: time.sleep(5) after the region, data or not
LogSleep(log, saved) == Append(log, <<"sleep", "5", "">>)

\* line 441 ending the loop after a region without data
AfterRegionAbortOnFailure(saved, more) ==
    IF more /\ saved THEN "run_request" ELSE "idle"

\* lines 463-471 letting the failure of the last region out of run_scraper,
\* which ends the process
AfterRegionRaises(saved, more) ==
    IF more THEN "run_request" ELSE IF saved THEN "idle" ELSE "exited"

\* line 441: the loop goes on while regions are left; after the last one the
\* run returns to the scheduler loop
AfterRegion(saved, more) == IF more THEN "run_request" ELSE "idle"

\* the events of a run: <<"lookup", outcome, "">> for the region lookup of
\* line 431, <<"request", region, "data" or "nodata">> for the API request
\* of get_forecast_data and what it returned, <<"sleep", "5", "">> for line 461
RequestEvent(region, records) ==
    <<"request", region, IF records # <<>> THEN "data" ELSE "nodata">>
LookupEvent(outcome) == <<"lookup", outcome, "">>

\* line 441 requesting again the region that gave no data
NextIndexRetry(i, saved) == IF saved THEN i + 1 ELSE i

\* line 441: the next region, data or not
NextIndex(i, saved) == i + 1

-----------------------------------------------------------------------------
(* Inputs of the process: the environment, the answers of the API and the   *)
(* surf_breaks table                                                        *)

\* the three values scraper.py reads (lines 20-25), and TEST_MODE, which
\* debug_scraper_fix.py tells the operator to set and scraper.py never reads
Environments ==
    [api_key : BOOLEAN, db_url : BOOLEAN, db_key : BOOLEAN, test_mode : BOOLEAN]

XBig7 == Reading("a", <<"0", "7">>, JBig, JNum(1), JNum(2), JNum(3))
XZero6 == Reading("a", <<"0", "6">>, JNum(0), JNum(21), JNull, JStr(<<"7">>))

\* a payload of one swell day with the given entries
OneDayPayload(es) ==
    JDict([forecasts |->
             JDict([swell |->
                      JDict([days |->
                               JList(<<JDict([dateTime |-> DayStamp(1),
                                              entries |-> JList(es)])>>)])])])

\* payloads that give a single record (the day ends at the 8am slot), which
\* keeps the fan-out of a region small, and a payload that gives none
PayloadTen == OneDayPayload(<<XA, XBig7>>)
PayloadZero == OneDayPayload(<<XZero6, XBig7>>)
PayloadNoDays == Payload(0, 0, 0, NoSpecial)

Answer(status_code, body) ==
    [kind |-> "response", status_code |-> status_code, is_json |-> TRUE, json |-> body]

GoodAnswers == {Answer(200, PayloadTen), Answer(200, PayloadZero)}
FailedAnswers ==
    { [kind |-> "Timeout"], [kind |-> "ConnectionError"],
      Answer(404, PayloadTen), Answer(500, PayloadTen),
      [kind |-> "response", status_code |-> 200, is_json |-> FALSE, json |-> JNull] }
EmptyAnswers ==
    { Answer(200, EmptyList), Answer(200, JDict([location |-> JNull])),
      Answer(200, JDict([forecasts |-> JNull])), Answer(200, PayloadNoDays) }
ApiAnswers == GoodAnswers \cup FailedAnswers \cup EmptyAnswers

\* what get_forecast_data returns for each of these answers
AnswerRecords == [answer \in ApiAnswers |-> get_forecast_data(answer)]

\* Bali is not configured; one break has no region
RunBreaks ==
    { [id |-> 1, region |-> "Sydney"], [id |-> 2, region |-> "Sydney"],
      [id |-> 3, region |-> "Wollongong"], [id |-> 4, region |-> "Bali"],
      [id |-> 5, region |-> ""] }
RunBreakTables ==
    { RunBreaks,
      {b \in RunBreaks : b.region # "Wollongong"},
      {b \in RunBreaks : b.region \notin DOMAIN AUSTRALIAN_SURF_LOCATIONS} }

-----------------------------------------------------------------------------
(* Specification of the process python scraper.py                           *)

RunInit ==
    /\ pc = "start"
    /\ env \in Environments
    /\ surf_breaks \in RunBreakTables
    /\ forecast_data = {}
    /\ region_name = ""
    /\ response = NoResponse
    /\ break_index = 1
    /\ record_index = 1
    /\ total_saved = 0
    /\ total_errors = 0
    /\ upserts = <<>>
    /\ prior_write = NoPrior
    /\ api_response = NoApiResponse
    /\ regions_to_scrape = <<>>
    /\ region_index = 1
    /\ successful_scrapes = 0
    /\ events = <<>>
    /\ caller = "none"
    /\ api_records = AnswerRecords
    /\ job_due = FALSE
    /\ last_api_event = "none"
    /\ FindIdle
    /\ ExtractIdle

\* the locals of save_forecast_data at its call
SaveEntered(records, region, from) ==
    /\ forecast_records' = records
    /\ region_name' = region
    /\ caller' = from
    /\ response' = NoResponse
    /\ break_index' = 1
    /\ record_index' = 1
    /\ total_saved' = 0
    /\ total_errors' = 0
    /\ upserts' = <<>>
    /\ prior_write' = NoPrior

\* lines 19-25: create_client raises without URL or key and the import of
\* the module ends the process; the API key is only read
ImportModule ==
    /\ pc = "start"
    /\ pc' = IF env.db_url /\ env.db_key THEN "main" ELSE "exited"
    /\ UNCHANGED <<findVars, extractVars, saveVars, runVars>>

\* lines 487-511: test_single_location up to its call of save_forecast_data;
\* without API key the constructor raises (line 94) into the except of
\* line 510
TestSingleLocation ==
    /\ pc = "main"
    /\ IF ~env.api_key
       THEN /\ pc' = "schedule"
            /\ UNCHANGED <<forecast_records, saveVars, api_response, events, caller,
                           last_api_event>>
       ELSE \E answer \in ApiAnswers :
              \E records \in {api_records[answer]} :
                /\ api_response' = answer
                /\ events' = Append(events, RequestEvent("Wollongong", records))
                /\ last_api_event' = "request"
                /\ IF records # <<>>
                   THEN /\ SaveEntered(records, "Wollongong", "test")
                        /\ pc' = "save_call"
                   ELSE /\ pc' = "schedule"
                        /\ UNCHANGED <<forecast_records, region_name, caller, response,
                                       break_index, record_index, total_saved,
                                       total_errors, upserts, prior_write>>
                /\ UNCHANGED <<surf_breaks, forecast_data>>
    /\ UNCHANGED <<findVars, data, slot_log, env, regions_to_scrape, region_index,
                   successful_scrapes, api_records, job_due>>

\* lines 513-521, 540-543: after test_single_location, schedule_scraper
\* registers the job and calls run_scraper
ScheduleScraper ==
    /\ \/ pc = "schedule"
       \/ pc = "save_done" /\ caller = "test"
    /\ pc' = "run_start"
    /\ caller' = "none"
    /\ job_due' = FALSE
    /\ UNCHANGED <<findVars, extractVars, saveVars, env, api_response, regions_to_scrape,
                   region_index, successful_scrapes, events, api_records, last_api_event>>

\* lines 422-440: run_scraper up to its region loop; the constructor raises
\* without API key, the region lookup may raise (giving [], line 316), and a
\* run without regions returns
RunStart ==
    /\ pc = "run_start"
    /\ successful_scrapes' = 0
    /\ region_index' = 1
    /\ IF ~env.api_key
       THEN /\ regions_to_scrape' = <<>>
            /\ events' = <<LookupEvent("not made")>>
            /\ pc' = "idle"
       ELSE \/ /\ regions_to_scrape' = <<>>
               /\ events' = <<LookupEvent("raised")>>
               /\ pc' = "idle"
            \/ \E regions \in Orders(get_all_breaks_to_scrape(surf_breaks)) :
                 /\ regions_to_scrape' = regions
                 /\ events' = <<LookupEvent("returned")>>
                 /\ pc' = IF Len(regions) = 0 THEN "idle" ELSE "run_request"
    /\ UNCHANGED <<findVars, extractVars, saveVars, env, api_response, caller,
                   api_records, job_due, last_api_event>>

\* lines 441-457: one region of the loop up to its call of
\* save_forecast_data; a region without location is skipped (line 449)
RunRequest ==
    /\ pc = "run_request"
    /\ LET region == regions_to_scrape[region_index]
       IN IF region \notin DOMAIN AUSTRALIAN_SURF_LOCATIONS
          THEN /\ region_index' = region_index + 1
               /\ pc' = AfterRegion(TRUE, region_index < Len(regions_to_scrape))
               /\ UNCHANGED <<forecast_records, saveVars, api_response, events, caller,
                              last_api_event>>
          ELSE \E answer \in ApiAnswers :
                 \E records \in {api_records[answer]} :
                   /\ api_response' = answer
                   /\ events' = Append(events, RequestEvent(region, records))
                   /\ last_api_event' = "request"
                   /\ IF records # <<>>
                      THEN /\ SaveEntered(records, region, "run")
                           /\ pc' = "save_call"
                      ELSE /\ pc' = "run_sleep"
                           /\ UNCHANGED <<forecast_records, region_name, caller, response,
                                          break_index, record_index, total_saved,
                                          total_errors, upserts, prior_write>>
                   /\ UNCHANGED <<surf_breaks, forecast_data, region_index>>
    /\ UNCHANGED <<findVars, data, slot_log, env, regions_to_scrape, successful_scrapes,
                   api_records, job_due>>

\* lines 453-465: the region's end: successful_scrapes after
\* save_forecast_data, the sleep, and the next region or the end of the run
RunSleep ==
    /\ \/ pc = "run_sleep"
       \/ pc = "save_done" /\ caller = "run"
    /\ LET saved == pc = "save_done"
       IN /\ successful_scrapes' = IF saved THEN successful_scrapes + 1
                                   ELSE successful_scrapes
          /\ events' = LogSleep(events, saved)
          /\ region_index' = NextIndex(region_index, saved)
          /\ pc' = AfterRegion(saved, region_index < Len(regions_to_scrape))
    /\ caller' = "none"
    /\ last_api_event' = "sleep"
    /\ UNCHANGED <<findVars, extractVars, saveVars, env, api_response, regions_to_scrape,
                   api_records, job_due>>

\* line 519: the job is registered once schedule_scraper has been entered
JobRegistered ==
    \/ pc \in {"run_start", "run_request", "run_sleep", "idle"}
    \/ pc \in {"save_call", "save_loop", "save_done"} /\ caller = "run"

\* line 519: every(6).hours: the period ends and the job becomes due,
\* wherever the process is, also in the middle of a run
PeriodElapses ==
    /\ JobRegistered
    /\ ~job_due
    /\ job_due' = TRUE
    /\ UNCHANGED <<pc, findVars, extractVars, saveVars, env, api_response,
                   regions_to_scrape, region_index, successful_scrapes, events, caller,
                   api_records, last_api_event>>

\* lines 524-527 with the due job started from a timer, wherever the process is
RunPendingAnywhere(at) == TRUE

\* lines 524-527: run_pending is called in the loop only, between the end of
\* one run and the start of the next
RunPendingAt(at) == at = "idle"

\* lines 524-527: the scheduler loop: run_pending finds the job due and
\* calls run_scraper (a pass that finds no job due changes nothing)
SchedulerLoop ==
    /\ RunPendingAt(pc)
    /\ job_due
    /\ pc' = "run_start"
    /\ job_due' = FALSE
    /\ UNCHANGED <<findVars, extractVars, saveVars, env, api_response,
                   regions_to_scrape, region_index, successful_scrapes, events, caller,
                   api_records, last_api_event>>

RunNext ==
    \/ ImportModule
    \/ TestSingleLocation
    \/ ScheduleScraper
    \/ RunStart
    \/ RunRequest
    \/ SaveLookup
    \/ SaveLookupFails
    \/ SaveUpsert
    \/ SaveUpsertFails
    \/ RunSleep
    \/ PeriodElapses
    \/ SchedulerLoop

SpecRun == RunInit /\ [][RunNext]_vars

\* the process in periodic mode (TEST_MODE not set). It keeps executing (one
\* thread, every call of lines 422-527 returns) and time passes, so a step
\* is taken whenever one is possible
RunInitPeriodic == RunInit /\ ~env.test_mode
SpecRunFair == RunInitPeriodic /\ [][RunNext]_vars /\ WF_vars(RunNext)

-----------------------------------------------------------------------------
(* Properties of find_closest_entry *)

FindDone == pc = "find_done"
Returned == closest.exc = "none"

\* the hour each sampled entry's timestamp states, read off the samples
StatedHour(e) ==
    CASE e \in {E5, E5b} -> 5
      [] e = E7 -> 7
      [] e = E9 -> 9
      [] e = E13 -> 13
      [] e = E17 -> 17

\* positions of the entries whose timestamp yields an hour
HourIdx(l) == {i \in 1..Len(l) : l[i] \in ParseableEntries}
Dist(l, i, target) == Abs(StatedHour(l[i]) - target)

\* the earliest position among those of minimal distance
IsFirstMin(l, i, target) ==
    /\ i \in HourIdx(l)
    /\ \A j \in HourIdx(l) :
          /\ Dist(l, i, target) <= Dist(l, j, target)
          /\ Dist(l, j, target) = Dist(l, i, target) => i <= j

\* C1: among the entries whose timestamp yields an hour, the returned entry
\* minimises abs(hour - target_hour), and of several tied entries the
\* earliest in input order is returned; hours [5, 9, 13, 17] give the hour-5
\* entry for target 6 and the hour-9 entry for target 8.
C1_ClosestFirstMin ==
    (FindDone /\ Returned) =>
        /\ \A i \in HourIdx(entries.l) :
              IsFirstMin(entries.l, i, target_hour) => closest.val = entries.l[i]
        /\ (entries.l = ExampleEntries /\ target_hour = 6) => closest.val = E5
        /\ (entries.l = ExampleEntries /\ target_hour = 8) => closest.val = E9

\* two entries tie around target 6 and the earlier one is returned
C1_Witness ==
    /\ FindDone
    /\ entries.l = <<E7, E5>>
    /\ target_hour = 6
    /\ closest = Ok(E7)

\* C4 as stated: for a non-empty list the returned entry is an element of it
C4_AsStated ==
    (FindDone /\ Returned /\ Len(entries.l) > 0) =>
        \E i \in 1..Len(entries.l) : closest.val = entries.l[i]

\* C4 amended: what is returned for a non-empty list is an element of the
\* list that yields an hour when some entry yields one, and absent when no
\* entry yields an hour; nothing else is ever returned.
C4_ElementOrAbsent ==
    (FindDone /\ Returned /\ Len(entries.l) > 0) =>
        IF HourIdx(entries.l) # {}
        THEN \E i \in HourIdx(entries.l) : closest.val = entries.l[i]
        ELSE closest.val = EmptyDict

\* a non-empty list without any usable timestamp gives absent
C4_Witness ==
    /\ FindDone
    /\ entries.l = <<ENoKey, EBadHour>>
    /\ closest = Ok(EmptyDict)

\* C5: an entry without a parseable timestamp is skipped; the call does not
\* fail because of it, never selects it, and returns the closest of the rest.
C5_UnparseableSkipped ==
    FindDone =>
        /\ Returned
        /\ IF HourIdx(entries.l) # {}
           THEN \E i \in HourIdx(entries.l) :
                    IsFirstMin(entries.l, i, target_hour) /\ closest.val = entries.l[i]
           ELSE closest.val = EmptyDict

\* C6: on an empty entry list the call returns absent, for every target hour.
C6_EmptyGivesAbsent ==
    (FindDone /\ entries = EmptyList) => closest = Ok(EmptyDict)

C6_Witness ==
    /\ FindDone
    /\ entries = EmptyList
    /\ target_hour = 23
    /\ closest = Ok(EmptyDict)

-----------------------------------------------------------------------------
(* Properties of extract_forecast_records *)

\* the call has returned / has returned for a payload whose sections are
\* all dicts, the only payloads the day loop is reached for
Extracted == pc = "extract_done"
ExtractDone ==
    /\ pc = "extract_done"
    /\ \A cat \in DOMAIN data.d.forecasts.d : data.d.forecasts.d[cat].t = "dict"

\* the day lists the payload holds for the three categories
SwellDays == SectionDays(data.d.forecasts, "swell").val
WindDays == SectionDays(data.d.forecasts, "wind").val
TideDays == SectionDays(data.d.forecasts, "tides").val
DaysIn(cat) ==
    CASE cat = "swell" -> SwellDays [] cat = "wind" -> WindDays [] cat = "tides" -> TideDays

\* the entry list of a category on day d (from 0)
EntriesOn(cat, d) == PyGet(DayAt(DaysIn(cat), d).val, "entries", EmptyList).val

Periods == [k \in 1..7 |-> TIME_SLOTS[k].period]

ValueFields ==
    { [field |-> "swell_height", cat |-> "swell", key |-> "height"],
      [field |-> "swell_direction", cat |-> "swell", key |-> "direction"],
      [field |-> "swell_period", cat |-> "swell", key |-> "period"],
      [field |-> "wind_speed", cat |-> "wind", key |-> "speed"],
      [field |-> "wind_direction", cat |-> "wind", key |-> "direction"],
      [field |-> "tide_height", cat |-> "tides", key |-> "height"] }

\* C2: every day yields exactly 7 records, one per slot label in the order
\* 6am .. 6pm, however many entries it has; a day without entries yields
\* records whose value fields are null.
C2_SevenPerDay ==
    ExtractDone =>
        /\ Len(forecast_records) % 7 = 0
        /\ \A i \in 1..Len(forecast_records) :
              /\ forecast_records[i].time_period = Periods[((i - 1) % 7) + 1]
              /\ (i - 1) % 7 # 0 =>
                    forecast_records[i].forecast_date = forecast_records[i - 1].forecast_date

\* text float() reads as a number, judged on the characters
NumericText(s) == Len(s) > 0 /\ \A i \in 1..Len(s) : s[i] \in {Digits[j] : j \in 1..10}
HasKey(m, key) == m.t = "dict" /\ key \in DOMAIN m.d
Unusable(v) == v.t = "null" \/ (v.t = "str" /\ ~NumericText(v.s)) \/ v.t \in {"list", "dict"}

\* C3 as stated: a field is null iff no entry was matched for its variable
\* or the matched entry lacked the field
C3_AsStated ==
    ExtractDone =>
        \A i \in 1..Len(forecast_records) : \A f \in ValueFields :
            LET m == slot_log[i][f.cat]
            IN (forecast_records[i][f.field] = JNull) <=> (m = EmptyDict \/ ~HasKey(m, f.key))

\* C3 amended: a field is null iff no entry was matched for its variable, or
\* the matched entry lacked the field, or held null or a non-numeric value
\* in it.
C3_NullIffNoUsableValue ==
    ExtractDone =>
        \A i \in 1..Len(forecast_records) : \A f \in ValueFields :
            LET m == slot_log[i][f.cat]
            IN (forecast_records[i][f.field] = JNull) <=>
                  (m = EmptyDict \/ ~HasKey(m, f.key) \/ Unusable(m.d[f.key]))

\* one record holds null for a matched non-numeric height and for a missing
\* period, and a number for a matched speed
C3_Witness ==
    /\ ExtractDone
    /\ Len(forecast_records) = 7
    /\ EntriesOn("swell", 0) = JList(<<XText>>)
    /\ slot_log[1].swell = XText
    /\ forecast_records[1].swell_height = JNull
    /\ forecast_records[1].swell_period = JNull
    /\ EntriesOn("wind", 0) # EmptyList
    /\ forecast_records[1].wind_speed # JNull

\* an entry with a "<date>T<hh>:00" timestamp and numeric swell values
TimedSwellReading(e) ==
    /\ e.t = "dict"
    /\ \A key \in {"dateTime", "height", "direction", "period"} : key \in DOMAIN e.d
    /\ \A key \in {"height", "direction", "period"} : e.d[key].t = "num"
    /\ e.d.dateTime.t = "str"
    /\ LET s == e.d.dateTime.s
       IN /\ Len(s) = 7
          /\ s[2] = "T" /\ s[3] \in {"0", "1"} /\ IsDigit(s[4])
          /\ SubSeq(s, 5, 7) = <<":", "0", "0">>

\* C7: the variables are matched independently: on a day whose wind entries
\* are empty and whose swell entries are non-empty, with timestamps and
\* values, every record has non-null swell fields and null wind fields.
C7_SwellWithoutWind ==
    ExtractDone =>
        \A r \in 1..Len(forecast_records) :
            LET rec == forecast_records[r]
                swell == EntriesOn("swell", slot_log[r].day_index)
            IN ( /\ EntriesOn("wind", slot_log[r].day_index) = EmptyList
                 /\ swell.t = "list" /\ Len(swell.l) > 0
                 /\ \A i \in 1..Len(swell.l) : TimedSwellReading(swell.l[i]) )
               => /\ rec.swell_height # JNull
                  /\ rec.swell_direction # JNull
                  /\ rec.swell_period # JNull
                  /\ rec.wind_speed = JNull
                  /\ rec.wind_direction = JNull

\* a payload of one swell day and no wind day
C7_Witness ==
    /\ ExtractDone
    /\ data = Payload(1, 0, 1, NoSpecial)
    /\ Len(forecast_records) = 7
    /\ forecast_records[7].swell_period = JNum(117)
    /\ forecast_records[7].wind_speed = JNull

\* a day with a date, holding a list of entries none of which makes the
\* extraction raise
CleanEntry(e) ==
    e.t = "dict" =>
        /\ "dateTime" \in DOMAIN e.d => e.d.dateTime.t = "str"
        /\ \A key \in DOMAIN e.d : e.d[key].t # "big"
CleanDay(day) ==
    /\ day.t = "dict"
    /\ "entries" \in DOMAIN day.d => 
          /\ day.d.entries.t = "list"
          /\ \A i \in 1..Len(day.d.entries.l) : CleanEntry(day.d.entries.l[i])
DatedDay(day) ==
    /\ CleanDay(day)
    /\ "dateTime" \in DOMAIN day.d
    /\ day.d.dateTime.t = "str"
    /\ Len(day.d.dateTime.s) > 0

\* every category is a section with a day list (or is left out), every swell
\* and wind day is dated and every day is clean
WellFormedPayload ==
    /\ \A cat \in Categories : DaysIn(cat).t = "list"
    /\ \A i \in 1..Len(SwellDays.l) : DatedDay(SwellDays.l[i])
    /\ \A i \in 1..Len(WindDays.l) : DatedDay(WindDays.l[i])
    /\ \A i \in 1..Len(TideDays.l) : CleanDay(TideDays.l[i])

\* the number of days of the payload
PayloadDays == Max(Len(SwellDays.l), Len(WindDays.l))

C9_UniqueDateSlot ==
    ExtractDone =>
        \A i, j \in 1..Len(forecast_records) :
            ( /\ forecast_records[i].forecast_date = forecast_records[j].forecast_date
              /\ forecast_records[i].time_period = forecast_records[j].time_period )
            => i = j

-----------------------------------------------------------------------------
(* Properties of save_forecast_data *)

SaveDone == pc = "save_done" /\ response.exc = "none"
RegionBreaks == {b.id : b \in {x \in surf_breaks : x.region = region_name}}
WithoutBreak(row) == [row EXCEPT !.break_id = 0]

\* C10: a call of save_forecast_data whose lookup returned, with N records
\* for a region of M breaks, attempts exactly N*M upserts, one per (break,
\* record) pair and only for the breaks of the given region; the rows of one
\* record differ only in break_id; the upserts that return and those that
\* raise add up to N*M, so N*M rows are upserted when none raises, and each
\* of them is stored unless a later row of the call has the same key.
C10_FanOut ==
    SaveDone =>
        LET N == Len(forecast_records)
            M == Cardinality(RegionBreaks)
        IN /\ Len(upserts) = N * M
           /\ Len(response.data) = M
           /\ {response.data[b].id : b \in 1..M} = RegionBreaks
           /\ \A b \in 1..M : \A r \in 1..N :
                 /\ upserts[(b - 1) * N + r]
                      = DbRecord(response.data[b].id, forecast_records[r])
                 /\ \A c \in 1..M :
                       WithoutBreak(upserts[(b - 1) * N + r])
                         = WithoutBreak(upserts[(c - 1) * N + r])
           /\ \A i \in 1..Len(upserts) : upserts[i].break_id \in RegionBreaks
           /\ total_saved + total_errors = N * M
           /\ total_errors = 0 =>
                 /\ total_saved = N * M
                 /\ \A i \in 1..Len(upserts) :
                       (\A j \in (i + 1)..Len(upserts) :
                            ConflictKey(upserts[j]) # ConflictKey(upserts[i]))
                          => upserts[i] \in forecast_data

\* two records for Sydney's two breaks give four rows, none for the break of
\* the Gold Coast
C10_Witness ==
    /\ SaveDone
    /\ region_name = "Sydney"
    /\ forecast_records = <<RecA, RecB>>
    /\ total_saved = 4
    /\ Len(upserts) = 4
    /\ forecast_data = {DbRecord(b, r) : b \in {1, 2}, r \in {RecA, RecB}}

\* the rows stored under one key
StoredUnder(key) == {r \in forecast_data : ConflictKey(r) = key}
NoUpsertRaised == SaveDone /\ total_errors = 0

\* C11: the key (break_id, forecast_date, forecast_time) is unique in
\* forecast_data after any sequence of writes; a call of save_forecast_data
\* in which no upsert raised leaves exactly one row under each key it wrote,
\* and when it repeats the previous call (same records, same region, no
\* upsert raised there either) it leaves the table as that call left it.
C11_IdempotentWrite ==
    /\ \A r1, r2 \in forecast_data : ConflictKey(r1) = ConflictKey(r2) => r1 = r2
    /\ NoUpsertRaised =>
          /\ \A i \in 1..Len(upserts) :
                Cardinality(StoredUnder(ConflictKey(upserts[i]))) = 1
          /\ prior_write.known => forecast_data = prior_write.table

\* RecA and RecA2, of one date and slot, written twice for Sydney's two breaks
C11_Witness ==
    /\ NoUpsertRaised
    /\ prior_write.known
    /\ region_name = "Sydney"
    /\ forecast_records = <<RecA, RecA2>>
    /\ Len(upserts) = 4
    /\ forecast_data = prior_write.table
    /\ Cardinality(forecast_data) = 2

\* C12: an upsert that returns leaves, under the key of its row, exactly the
\* row it wrote: all six value fields are those of the new record, the null
\* ones included.
C12_UpsertReplaces ==
    [][(pc = "save_loop" /\ total_saved' = total_saved + 1) =>
          /\ CurrentRow \in forecast_data'
          /\ \A r \in forecast_data' :
                ConflictKey(r) = ConflictKey(CurrentRow) => r = CurrentRow
          /\ \A r \in forecast_data :
                ConflictKey(r) # ConflictKey(CurrentRow) => r \in forecast_data']_vars

\* RecA2, with three null fields RecA has values in, has replaced RecA
C12_Witness ==
    /\ NoUpsertRaised
    /\ forecast_records = <<RecA, RecA2>>
    /\ region_name = "Gold Coast"
    /\ StoredUnder(<<3, <<"a">>, "6am">>) = {DbRecord(3, RecA2)}
    /\ DbRecord(3, RecA2).tide_height = JNull
    /\ RecA.tide_height # JNull

\* the rows of the breaks of the region under one date and slot
RegionRows(date, slot) ==
    {r \in forecast_data :
        r.break_id \in RegionBreaks /\ r.forecast_date = date /\ r.forecast_time = slot}
SameValues(rows) == \A r1, r2 \in rows : WithoutBreak(r1) = WithoutBreak(r2)
StoredDateSlots == {<<r.forecast_date, r.forecast_time>> : r \in forecast_data}

C14_FailuresCounted ==
    /\ SaveDone =>
          LET N == Len(forecast_records)
              M == Len(response.data)
          IN /\ total_saved + total_errors = N * M
             /\ Len(upserts) = N * M
             /\ \A b \in 1..M : \A r \in 1..N :
                   upserts[(b - 1) * N + r].break_id = response.data[b].id
             /\ RegionBreaks = {} => upserts = <<>> /\ total_saved = 0 /\ total_errors = 0
    /\ pc = "save_loop" => total_saved + total_errors = Len(upserts)

\* the first of four upserts raised without writing and the other three were
\* still made
C14_Witness ==
    /\ SaveDone
    /\ forecast_records = <<RecA, RecB>>
    /\ region_name = "Sydney"
    /\ total_errors = 1
    /\ total_saved = 3
    /\ upserts[1] \notin forecast_data
    /\ \A i \in 2..4 : upserts[i] \in forecast_data

-----------------------------------------------------------------------------
(* Properties of run_scraper and of the process *)

\* the run is in its region loop or has ended
InRun ==
    \/ pc \in {"run_request", "run_sleep", "idle"}
    \/ pc \in {"save_call", "save_loop", "save_done"} /\ caller = "run"
RunEnded == pc = "idle" /\ env.api_key
LookupReturned == Len(events) > 0 /\ events[1] = LookupEvent("returned")

IsRequest(e) == e[1] = "request"
IsSleep(e) == e[1] = "sleep"
RequestIdx == {i \in 1..Len(events) : IsRequest(events[i])}
RequestedSeq == SelectSeq(events, IsRequest)
Requested == {events[i][2] : i \in RequestIdx}
\* the regions the loop has reached so far
RegionsReached ==
    IF pc = "idle" THEN Len(regions_to_scrape)
    ELSE IF pc = "run_request" THEN region_index - 1
    ELSE region_index
\* a step that makes an API request
RequestStep ==
    /\ Len(events') = Len(events) + 1
    /\ IsRequest(events'[Len(events')])
LastRequest(log) ==
    log[CHOOSE i \in 1..Len(log) :
            IsRequest(log[i]) /\ \A j \in (i + 1)..Len(log) : ~IsRequest(log[j])]
\* a step that writes, or tries to write, a forecast row
WriteStep == forecast_data' # forecast_data \/ Len(upserts') > Len(upserts)

\* C15: no region's failure ends the run: a run whose region lookup returned
\* ends only after it has made the request of every region of its list, in
\* order, whatever the earlier regions gave; and every request that returns
\* records is followed by the call of save_forecast_data for that region.
C15_FailureDoesNotAbort ==
    /\ [](InRun /\ LookupReturned =>
            /\ Len(RequestedSeq) = RegionsReached
            /\ \A i \in 1..Len(RequestedSeq) : RequestedSeq[i][2] = regions_to_scrape[i])
    /\ [][(RequestStep /\ pc = "run_request" /\ events'[Len(events')][3] = "data") =>
             /\ pc' = "save_call"
             /\ region_name' = regions_to_scrape[region_index]
             /\ forecast_records' = api_records[api_response']]_vars

\* Sydney gave no data, Wollongong after it was requested and written
C15_Witness ==
    /\ RunEnded
    /\ regions_to_scrape = <<"Sydney", "Wollongong">>
    /\ Len(events) = 5
    /\ events[2] = RequestEvent("Sydney", <<>>)
    /\ events[4] = <<"request", "Wollongong", "data">>
    /\ \E r \in forecast_data : r.break_id = 3
    /\ \A r \in forecast_data : r.break_id = 3

\* C16: in one run every region of the list gets one API request and no
\* region gets two; and every forecast write of the run is made for the
\* region of the latest request, before the next request.
C16_OneRequestSequential ==
    /\ [](InRun =>
            /\ \A i, j \in RequestIdx : events[i][2] = events[j][2] => i = j
            /\ RunEnded /\ LookupReturned =>
                  Requested = {regions_to_scrape[i] : i \in 1..Len(regions_to_scrape)})
    /\ [][(WriteStep /\ caller = "run") =>
             /\ ~RequestStep
             /\ region_name = regions_to_scrape[region_index]
             /\ LastRequest(events) = <<"request", region_name, "data">>
             /\ events' = events
             /\ \A r \in forecast_data' \ forecast_data :
                   \E b \in surf_breaks : b.id = r.break_id /\ b.region = region_name]_vars

\* both regions requested once, Sydney's two rows written before
\* Wollongong's request
C16_Witness ==
    /\ pc = "run_sleep"
    /\ regions_to_scrape = <<"Sydney", "Wollongong">>
    /\ region_index = 2
    /\ Len(RequestedSeq) = 2
    /\ events[2][3] = "data"
    /\ {r.break_id : r \in forecast_data} = {1, 2}

\* C17: between two consecutive API requests of a run lies the sleep of
\* line 461, whether the earlier request gave records or not.
C17_SleepBetweenRequests ==
    InRun =>
        \A i, j \in RequestIdx :
            i < j => \E k \in (i + 1)..(j - 1) : IsSleep(events[k])

\* the first region gave no data and the sleep came before the next request
C17_Witness ==
    /\ InRun
    /\ Len(events) >= 4
    /\ events[2][1] = "request"
    /\ events[2][3] = "nodata"
    /\ IsSleep(events[3])
    /\ IsRequest(events[4])

\* the regions referenced by the breaks that have a configured location
ScrapeableRegions == {b.region : b \in surf_breaks} \cap DOMAIN AUSTRALIAN_SURF_LOCATIONS

\* C18: a run requests only regions that a break references and that have a
\* configured location; a run that ended after its region lookup returned
\* has requested exactly these; a run whose lookup raised made no request.
C18_RequestedRegions ==
    InRun =>
        /\ Requested \subseteq ScrapeableRegions
        /\ RunEnded /\ LookupReturned => Requested = ScrapeableRegions
        /\ ~LookupReturned => Requested = {}

\* with breaks in Sydney, Wollongong, Bali and one without region, the run
\* requested Sydney and Wollongong
C18_Witness ==
    /\ RunEnded
    /\ LookupReturned
    /\ surf_breaks = RunBreaks
    /\ Requested = {"Sydney", "Wollongong"}
    /\ "Bali" \in {b.region : b \in surf_breaks}

\* C19: a request answered with a non-200 status, a body that is not JSON, a
\* timeout or a connection error gives no records (get_forecast_data returns
\* []): the step makes no write and goes on to the sleep (to schedule_scraper
\* after the test request), and every later write of the run belongs to a
\* request that gave records.
C19_ApiFailureWritesNothing ==
    /\ [](\A a \in FailedAnswers : api_records # <<>> => api_records[a] = <<>>)
    /\ [][(RequestStep /\ api_response' \in FailedAnswers) =>
             /\ events'[Len(events')][3] = "nodata"
             /\ pc' \in {"run_sleep", "schedule"}
             /\ forecast_data' = forecast_data
             /\ upserts' = upserts]_vars
    /\ [][(WriteStep /\ caller = "run") => LastRequest(events)[3] = "data"]_vars

\* Sydney's rows of an earlier run are still there after a 500 for Sydney
C19_Witness ==
    /\ pc = "run_sleep"
    /\ api_response = Answer(500, PayloadTen)
    /\ events[Len(events)] = <<"request", "Sydney", "nodata">>
    /\ {r.break_id : r \in forecast_data} = {1, 2}

\* C20: with a configuration value missing the process ends at startup: it
\* makes no API request and no forecast write and never reaches
\* schedule_scraper or its loop.
C20_MissingConfigIsFatal ==
    (~env.api_key \/ ~env.db_url \/ ~env.db_key) =>
        /\ pc \in {"start", "exited"}
        /\ events = <<>>
        /\ forecast_data = {}

-----------------------------------------------------------------------------
(* Error recovery of extract_forecast_records and safe_get_float *)

\* the records day d (from 0) contributed to the result
RecordsOfDay(d) == {i \in 1..Len(forecast_records) : slot_log[i].day_index = d}

\* C21: an error is recovered per day: a day contributes either all 7 of
\* its slot records or none (never a partial set), while the other days of
\* the payload keep their records, so the result length is a multiple of 7.
C21_WholeDaysOnly ==
    Extracted =>
        /\ \A d \in 0..(MaxDaysProcessed - 1) : Cardinality(RecordsOfDay(d)) \in {0, 7}
        /\ Len(forecast_records) % 7 = 0

\* the entries the payload holds in the days of a category, and in all
Range(seq) == {seq[i] : i \in 1..Len(seq)}
EntriesIn(cat) ==
    IF DaysIn(cat).t # "list" THEN {}
    ELSE UNION { IF day.t = "dict" /\ HasKey(day, "entries") /\ day.d.entries.t = "list"
                 THEN Range(day.d.entries.l) ELSE {} : day \in Range(DaysIn(cat).l) }
PayloadEntries == UNION {EntriesIn(cat) : cat \in Categories}

\* the keys extract_forecast_records reads with safe_get_float
FloatKeys == {f.key : f \in ValueFields}

\* C22: safe_get_float never raises: for an absent or non-mapping entry, a
\* missing key, a null or a non-numeric value it returns null, and
\* otherwise the numeric value of the field.
C22_SafeGetFloatNeverRaises ==
    ExtractDone =>
        \A e \in PayloadEntries \cup {JNull, EmptyDict} : \A key \in FloatKeys :
            LET r == safe_get_float(e, key)
            IN /\ r.exc = "none"
               /\ (~HasKey(e, key) \/ Unusable(e.d[key])) => r.val = JNull
               /\ (HasKey(e, key) /\ e.d[key].t = "num") => r.val = e.d[key]

-----------------------------------------------------------------------------
(* Day pairing and day count of extract_forecast_records *)

\* the calendar date a raw day states, <<>> when it states none
DateOfDay(day) ==
    IF HasKey(day, "dateTime") /\ day.d.dateTime.t = "str"
    THEN StrSplit(day.d.dateTime.s, "T")[1] ELSE <<>>

\* C27: every value of a record comes from an entry of the record's own
\* calendar date: the raw swell, wind and tide day an entry was matched in
\* has the date that is the record's forecast_date.
C27_ValuesOfOwnDate ==
    ExtractDone =>
        \A i \in 1..Len(forecast_records) : \A cat \in Categories :
            slot_log[i][cat] # EmptyDict =>
                DateOfDay(DayAt(DaysIn(cat), slot_log[i].day_index).val)
                    = forecast_records[i].forecast_date

\* the dateTime the claim reads for day d: the swell day's when it has the
\* key, else the wind day's, else none
StatedDayStamp(d) ==
    LET swell_day == DayAt(SwellDays, d).val
        wind_day == DayAt(WindDays, d).val
    IN IF HasKey(swell_day, "dateTime") THEN swell_day.d.dateTime
       ELSE IF HasKey(wind_day, "dateTime") THEN wind_day.d.dateTime
       ELSE EmptyStr

\* the days of index d are dicts whose entries do not make the day raise
CleanDaysAt(d) ==
    \A cat \in Categories : CleanDay(DayAt(DaysIn(cat), d).val)

-----------------------------------------------------------------------------
(* Matching distance of find_closest_entry *)

SlotHours == {TIME_SLOTS[k].hour : k \in 1..Len(TIME_SLOTS)}

\* C29: matching has no maximum distance: for a list that holds at least
\* one entry with a parseable hour, find_closest_entry returns an entry
\* (never absent) for every one of the 7 slot hours, however far the
\* entry's hour is from the slot.
C29_NoMaximumDistance ==
    (FindDone /\ HourIdx(entries.l) # {} /\ target_hour \in SlotHours) =>
        /\ Returned
        /\ closest.val # EmptyDict
        /\ \E i \in HourIdx(entries.l) : closest.val = entries.l[i]

-----------------------------------------------------------------------------
(* Frame of the forecast writes *)

StoredKeys(table) == {ConflictKey(r) : r \in table}

\* C26: forecast rows are never deleted and only the row under the key of
\* an upsert changes: in every step each stored row stays as it is unless
\* the step upserts a row of its key, each new row is the row upserted, and
\* the set of stored keys only grows, over any number of calls for any
\* regions and records.
C26_OnlyUpsertedKeysChange ==
    [][/\ \A r \in forecast_data :
             \/ r \in forecast_data'
             \/ /\ pc = "save_loop"
                /\ Len(upserts') = Len(upserts) + 1
                /\ ConflictKey(r) = ConflictKey(upserts'[Len(upserts')])
       /\ \A r \in forecast_data' \ forecast_data :
             pc = "save_loop" /\ r = upserts'[Len(upserts')]
       /\ StoredKeys(forecast_data) \subseteq StoredKeys(forecast_data')]_vars

\* after a call for Gold Coast with the 8am record alone, the 6am row of its
\* break and the rows of Sydney's breaks, written by earlier calls, are
\* still stored
C26_Witness ==
    /\ SaveDone
    /\ region_name = "Gold Coast"
    /\ forecast_records = <<RecB>>
    /\ upserts = <<DbRecord(3, RecB)>>
    /\ forecast_data = {DbRecord(1, RecA), DbRecord(2, RecA), DbRecord(3, RecA),
                        DbRecord(3, RecB)}

-----------------------------------------------------------------------------
(* Properties of the scheduler loop and of the process lifetime *)

\* a run of run_scraper has been called and has not returned
RunActive ==
    \/ pc \in {"run_start", "run_request", "run_sleep"}
    \/ pc \in {"save_call", "save_loop", "save_done"} /\ caller = "run"
\* a step that calls run_scraper
RunBegins == pc' = "run_start" /\ (pc # "run_start" \/ (job_due /\ ~job_due'))

\* C23: nothing is concurrent in the process: run_scraper is never called
\* while a run is in progress, also when the period ends during the run (the
\* due job waits for the run to return); an API request is made only
\* outside save_forecast_data, a forecast write only inside it, one row per
\* step, and no step makes both.
C23_NoConcurrency ==
    /\ [][RunBegins => ~RunActive]_vars
    /\ [][(job_due /\ RunActive) => (RunActive' \/ pc' = "idle") /\ job_due']_vars
    /\ [][RequestStep => ~WriteStep /\ pc \in {"main", "run_request"}]_vars
    /\ [][WriteStep =>
             /\ ~RequestStep
             /\ pc = "save_loop"
             /\ Len(upserts') = Len(upserts) + 1]_vars

\* the period has ended while a run is writing Wollongong's row, the second
\* region of the run
C23_Witness ==
    /\ job_due
    /\ RunActive
    /\ pc = "save_loop"
    /\ region_name = "Wollongong"
    /\ region_index = 2

\* C24: once the module has loaded, the process runs until killed: the
\* first run is started right after the test scrape, every run that has
\* started returns to the scheduler loop (also one that fails inside), after
\* every run that has returned another one is started, and no step ends the
\* process.
C24_RunsUntilKilled ==
    /\ (pc = "main") ~> (pc = "run_start")
    /\ RunActive ~> (pc = "idle")
    /\ (pc = "idle") ~> (pc = "run_start")
    /\ [][pc # "start" => pc' # "exited"]_vars
    /\ [][(pc \in {"schedule", "save_done"} /\ ~RunActive /\ pc' # pc) =>
             pc' = "run_start"]_vars

\* a later run has started after an earlier one slept and returned with rows
\* written
C24_Witness ==
    /\ pc = "run_request"
    /\ Len(events) = 1
    /\ last_api_event = "sleep"
    /\ forecast_data # {}

\* C25: the entry point has a run-once mode, selected by the environment
\* flag: with it set, the process makes one scraper run and ends, so a run
\* that has returned is never followed by another run; without it the runs
\* repeat.
C25_RunOnceMode ==
    [][(env.test_mode /\ pc = "idle") => pc' \in {"idle", "exited"}]_vars

\* C30: over the whole lifetime of the process, from the test scrape on,
\* any two consecutive API requests are separated by the sleep of line 461:
\* no request is made while the latest request or sleep of the process is a
\* request.
C30_DelayBetweenAllRequests ==
    [][RequestStep => last_api_event # "request"]_vars

====
